---- MODULE Spec2Model ----
(***************************************************************************)
(* State-machine model of streamlit.py: one browser session of the chat    *)
(* shell.  The script is re-executed top to bottom on every interaction;   *)
(* pc is the position of the current execution:                            *)
(*   idle -> sidebar -> button -> init -> chat -> register -> idle         *)
(* and idle -> exiting -> exited for interpreter shutdown (atexit).        *)
(***************************************************************************)
EXTENDS Integers, Sequences, FiniteSets, TLC

\* ---------------------------------------------------------------- bounds
MaxCycles == 5

\* ------------------------------------------------------------- constants
None == 0
NoModel == ""
DefaultModel == "qwen-qwq-32b"
FallbackModels == <<"qwen-qwq-32b", "llama3-8b-8192", "llama3-70b-8192">>
MissingKeyDefault == <<DefaultModel>>

GroqNames == {"groq-llama3-8b"}
ModelLists == { <<"qwen-qwq-32b", "groq-llama3-8b">>, <<"llama3-8b-8192">> }
UserTexts == {"hi", "go"}
Replies == {"done"}

VARIABLES
  config,          \* contents of browser_mcp.json (static)
  keys,            \* keys present in st.session_state
  messages,        \* st.session_state.messages
  agent,           \* st.session_state.agent   (None or an object id)
  client,          \* st.session_state.client  (None or an object id)
  agentLlm,        \* model name the agent's llm was constructed with
  selected_model,  \* st.session_state.selected_model
  modelsCache,     \* st.cache_data entry of load_models
  available_models,\* script local of the current execution
  sessions,        \* client.sessions is non-empty
  registered,      \* number of functions registered with atexit
  pc, event, rerun, cycles,
  errorShown,      \* st.error was called in the current execution
  initCalls, clearCalls, closeCalls, cleanupRuns, pending,
  \* history variables
  prevMsgs, lastTurn, lastInit, okTurns, badTurns, submitted,
  startAbsent, calledInit, resetFrom, sessionsAtExit, everRaised

vars == << config, keys, messages, agent, client, agentLlm, selected_model,
           modelsCache, available_models, sessions, registered, pc, event,
           rerun, cycles, errorShown, initCalls, clearCalls, closeCalls,
           cleanupRuns, pending, prevMsgs, lastTurn, lastInit, okTurns,
           badTurns, submitted, startAbsent, calledInit, resetFrom,
           sessionsAtExit, everRaised >>

\* --------------------------------------------------------------- helpers
Range(s) == { s[i] : i \in 1..Len(s) }

IsPrefix(s, t) == /\ Len(s) <= Len(t)
                  /\ \A i \in 1..Len(s) : s[i] = t[i]

Entry(role, content) == [role |-> role, content |-> content]

\* ------------------------------------------------------ configuration file
Configs ==
  { [kind |-> k, hasModels |-> FALSE, models |-> <<>>] :
        k \in {"absent", "malformed", "nonobject", "object"} }
  \cup
  { [kind |-> "object", hasModels |-> TRUE, models |-> l] : l \in ModelLists }

\* with open(...) / json.load(f) / config.get("models", [...]) : the first
\* exception raised inside the try block, or "none" with the returned value
load_models_try(cfg) ==
  IF cfg.kind = "absent" THEN [exc |-> "FileNotFoundError", value |-> <<>>]
  ELSE IF cfg.kind = "malformed" THEN [exc |-> "JSONDecodeError", value |-> <<>>]
  ELSE IF cfg.kind = "nonobject" THEN [exc |-> "AttributeError", value |-> <<>>]
  ELSE [exc |-> "none",
        value |-> IF cfg.hasModels THEN cfg.models ELSE MissingKeyDefault]

load_models_sameFallback(cfg) ==
  LET r == load_models_try(cfg) IN
  IF r.exc # "none" \/ ~cfg.hasModels
    THEN [raised |-> FALSE, value |-> FallbackModels]
    ELSE [raised |-> FALSE, value |-> r.value]

\* bare except: every exception is absorbed into the fallback list
load_models(cfg) ==
  LET r == load_models_try(cfg) IN
  IF r.exc # "none"
    THEN [raised |-> FALSE, value |-> FallbackModels]
    ELSE [raised |-> FALSE, value |-> r.value]

\* ------------------------------------------------------- agent initializer
ContainsGroq(model) == model \in GroqNames

LlmFor(model) == IF ContainsGroq(model) THEN model ELSE DefaultModel

RaisePoints == {"none", "client", "llm", "agent"}

\* MCPClient.from_config_file reads the same file as load_models
InitOutcomes(cfg) ==
  IF cfg.kind \in {"absent", "malformed"} THEN {"client"} ELSE RaisePoints

initialize_agent_partial(model, raiseAt, id) ==
  IF raiseAt = "client"
    THEN [client |-> None, agent |-> None, llm |-> NoModel, error |-> TRUE]
  ELSE IF raiseAt \in {"llm", "agent"}
    THEN [client |-> id, agent |-> None, llm |-> NoModel, error |-> TRUE]
  ELSE [client |-> id, agent |-> id, llm |-> LlmFor(model), error |-> FALSE]

initialize_agent(model, raiseAt, id) ==
  IF raiseAt \in {"client", "llm", "agent"}
    THEN [client |-> None, agent |-> None, llm |-> NoModel, error |-> TRUE]
    ELSE [client |-> id, agent |-> id, llm |-> LlmFor(model), error |-> FALSE]

NeedsInit_keyAbsent(a, c, k) == "agent" \notin k \/ "client" \notin k

NeedsInit(a, c, k) == a = None \/ c = None

\* ------------------------------------------------------------ turn handler
RunOutcomes ==
  { [raised |-> TRUE, reply |-> ""] } \cup
  { [raised |-> FALSE, reply |-> r] : r \in Replies }

AppendUser_front(msgs, text) == <<Entry("user", text)>> \o msgs

AppendUser(msgs, text) == Append(msgs, Entry("user", text))

AppendAssistant_asUser(msgs, response) == Append(msgs, Entry("user", response))

AppendAssistant(msgs, response) == Append(msgs, Entry("assistant", response))

OnRunException_rollback(msgs) == SubSeq(msgs, 1, Len(msgs) - 1)

\* except Exception as e: st.error(...)  -- the transcript is not touched
OnRunException(msgs) == msgs

\* ------------------------------------------------------------------- Init
Init ==
  /\ config \in Configs
  /\ keys = {}
  /\ messages = <<>>
  /\ agent = None
  /\ client = None
  /\ agentLlm = NoModel
  /\ selected_model = NoModel
  /\ modelsCache = [set |-> FALSE, value |-> <<>>]
  /\ available_models = <<>>
  /\ sessions = FALSE
  /\ registered = 0
  /\ pc = "idle"
  /\ event = [kind |-> "load", arg |-> ""]
  /\ rerun = FALSE
  /\ cycles = 0
  /\ errorShown = FALSE
  /\ initCalls = 0
  /\ clearCalls = 0
  /\ closeCalls = 0
  /\ cleanupRuns = 0
  /\ pending = 0
  /\ prevMsgs = <<>>
  /\ lastTurn = "none"
  /\ lastInit = "none"
  /\ okTurns = 0
  /\ badTurns = 0
  /\ submitted = <<>>
  /\ startAbsent = TRUE
  /\ calledInit = FALSE
  /\ resetFrom = -1
  /\ sessionsAtExit = FALSE
  /\ everRaised = FALSE

\* ---------------------------------------------------------------- actions
\* The interactions the page offers once it has been rendered
Events ==
  IF cycles = 0 \/ rerun
    THEN { [kind |-> "load", arg |-> ""] }
    ELSE { [kind |-> "load", arg |-> ""], [kind |-> "button", arg |-> ""] }
         \cup { [kind |-> "select", arg |-> m] : m \in Range(available_models) }
         \cup { [kind |-> "submit", arg |-> t] : t \in UserTexts }

\* start of a script execution: session-state defaults
StartRender ==
  /\ pc = "idle"
  /\ cycles < MaxCycles
  /\ \E ev \in Events : event' = ev
  /\ keys' = keys \cup {"messages", "agent", "client"}
  /\ messages' = IF "messages" \in keys THEN messages ELSE <<>>
  /\ agent' = IF "agent" \in keys THEN agent ELSE None
  /\ client' = IF "client" \in keys THEN client ELSE None
  /\ cycles' = cycles + 1
  /\ rerun' = FALSE
  /\ errorShown' = FALSE
  /\ pc' = "sidebar"
  /\ lastTurn' = "none"
  /\ lastInit' = "none"
  /\ calledInit' = FALSE
  /\ startAbsent' = (agent = None \/ client = None)
  /\ UNCHANGED << config, agentLlm, selected_model, modelsCache,
                  available_models, sessions, registered, initCalls,
                  clearCalls, closeCalls, cleanupRuns, pending, prevMsgs,
                  okTurns, badTurns, submitted, resetFrom, sessionsAtExit,
                  everRaised >>

ModelSelection_rebuildOnChange ==
  /\ pc = "sidebar"
  /\ LET loaded == IF modelsCache.set THEN modelsCache.value
                   ELSE load_models(config).value
         current == IF "selected_model" \in keys THEN selected_model
                    ELSE loaded[1]
     IN /\ modelsCache' = [set |-> TRUE, value |-> loaded]
        /\ available_models' = loaded
        /\ selected_model' = IF event.kind = "select" THEN event.arg ELSE current
  /\ keys' = keys \cup {"selected_model"}
  /\ IF event.kind = "select" /\ event.arg # selected_model
       THEN agent' = None /\ client' = None
       ELSE UNCHANGED << agent, client >>
  /\ pc' = "button"
  /\ UNCHANGED << config, messages, agentLlm, sessions,
                  registered, event, rerun, cycles, errorShown, initCalls,
                  clearCalls, closeCalls, cleanupRuns, pending, prevMsgs,
                  lastTurn, lastInit, okTurns, badTurns, submitted,
                  startAbsent, calledInit, resetFrom, sessionsAtExit,
                  everRaised >>

\* sidebar: model list and selectbox
ModelSelection ==
  /\ pc = "sidebar"
  /\ LET loaded == IF modelsCache.set THEN modelsCache.value
                   ELSE load_models(config).value
         current == IF "selected_model" \in keys THEN selected_model
                    ELSE loaded[1]
     IN /\ modelsCache' = [set |-> TRUE, value |-> loaded]
        /\ available_models' = loaded
        /\ selected_model' = IF event.kind = "select" THEN event.arg ELSE current
  /\ keys' = keys \cup {"selected_model"}
  /\ pc' = "button"
  /\ UNCHANGED << config, messages, agent, client, agentLlm, sessions,
                  registered, event, rerun, cycles, errorShown, initCalls,
                  clearCalls, closeCalls, cleanupRuns, pending, prevMsgs,
                  lastTurn, lastInit, okTurns, badTurns, submitted,
                  startAbsent, calledInit, resetFrom, sessionsAtExit,
                  everRaised >>

NewConversation_keepTranscript ==
  /\ pc = "button"
  /\ IF event.kind = "button"
       THEN /\ messages' = messages
            /\ clearCalls' = IF agent # None THEN clearCalls + 1 ELSE clearCalls
            /\ resetFrom' = Len(messages)
            /\ okTurns' = 0
            /\ badTurns' = 0
            /\ submitted' = <<>>
       ELSE UNCHANGED << messages, clearCalls, resetFrom, okTurns, badTurns,
                         submitted >>
  /\ pc' = "init"
  /\ UNCHANGED << config, keys, agent, client, agentLlm, selected_model,
                  modelsCache, available_models, sessions, registered, event,
                  rerun, cycles, errorShown, initCalls, closeCalls,
                  cleanupRuns, pending, prevMsgs, lastTurn, lastInit,
                  startAbsent, calledInit, sessionsAtExit, everRaised >>

\* sidebar: "New Conversation" button
NewConversation ==
  /\ pc = "button"
  /\ IF event.kind = "button"
       THEN /\ messages' = <<>>
            /\ clearCalls' = IF agent # None THEN clearCalls + 1 ELSE clearCalls
            /\ resetFrom' = Len(messages)
            /\ okTurns' = 0
            /\ badTurns' = 0
            /\ submitted' = <<>>
       ELSE UNCHANGED << messages, clearCalls, resetFrom, okTurns, badTurns,
                         submitted >>
  /\ pc' = "init"
  /\ UNCHANGED << config, keys, agent, client, agentLlm, selected_model,
                  modelsCache, available_models, sessions, registered, event,
                  rerun, cycles, errorShown, initCalls, closeCalls,
                  cleanupRuns, pending, prevMsgs, lastTurn, lastInit,
                  startAbsent, calledInit, sessionsAtExit, everRaised >>

\* "Initialize the agent when needed"
InitBlock ==
  /\ pc = "init"
  /\ IF NeedsInit(agent, client, keys)
       THEN \E raiseAt \in InitOutcomes(config) :
              LET r == initialize_agent(selected_model, raiseAt, initCalls + 1)
              IN /\ client' = r.client
                 /\ agent' = r.agent
                 /\ agentLlm' = r.llm
                 /\ errorShown' = (errorShown \/ r.error \/ r.agent = None)
                 /\ initCalls' = initCalls + 1
                 /\ calledInit' = TRUE
                 /\ lastInit' = IF raiseAt = "none" THEN "ok" ELSE raiseAt
       ELSE /\ lastInit' = "skipped"
            /\ UNCHANGED << client, agent, agentLlm, errorShown, initCalls,
                            calledInit >>
  /\ pc' = "chat"
  /\ UNCHANGED << config, keys, messages, selected_model, modelsCache,
                  available_models, sessions, registered, event, rerun,
                  cycles, clearCalls, closeCalls, cleanupRuns, pending,
                  prevMsgs, lastTurn, okTurns, badTurns, submitted,
                  startAbsent, resetFrom, sessionsAtExit, everRaised >>

\* chat input: one turn.  st.experimental_rerun() stops this execution and
\* schedules a new one, so atexit.register is not reached on that path.
ChatInput ==
  /\ pc = "chat"
  /\ IF event.kind = "submit"
       THEN LET withUser == AppendUser(messages, event.arg) IN
            /\ prevMsgs' = messages
            /\ submitted' = Append(submitted, event.arg)
            /\ IF agent # None
                 THEN \E out \in RunOutcomes, opens \in BOOLEAN :
                        /\ sessions' = (sessions \/ opens)
                        /\ IF out.raised
                             THEN /\ messages' = OnRunException(withUser)
                                  /\ errorShown' = TRUE
                                  /\ rerun' = FALSE
                                  /\ pc' = "register"
                                  /\ lastTurn' = "raised"
                                  /\ badTurns' = badTurns + 1
                                  /\ everRaised' = TRUE
                                  /\ UNCHANGED okTurns
                             ELSE /\ messages' = AppendAssistant(withUser, out.reply)
                                  /\ rerun' = TRUE
                                  /\ pc' = "idle"
                                  /\ lastTurn' = "ok"
                                  /\ okTurns' = okTurns + 1
                                  /\ UNCHANGED << errorShown, badTurns, everRaised >>
                 ELSE /\ messages' = withUser
                      /\ errorShown' = TRUE
                      /\ rerun' = TRUE
                      /\ pc' = "idle"
                      /\ lastTurn' = "noagent"
                      /\ badTurns' = badTurns + 1
                      /\ UNCHANGED << sessions, okTurns, everRaised >>
       ELSE /\ pc' = "register"
            /\ UNCHANGED << messages, sessions, errorShown, rerun, lastTurn,
                            okTurns, badTurns, everRaised, prevMsgs, submitted >>
  /\ UNCHANGED << config, keys, agent, client, agentLlm, selected_model,
                  modelsCache, available_models, registered, event, cycles,
                  initCalls, clearCalls, closeCalls, cleanupRuns, pending,
                  lastInit, startAbsent, calledInit, resetFrom,
                  sessionsAtExit >>

\* atexit.register(cleanup) at the end of the script
Register ==
  /\ pc = "register"
  /\ registered' = registered + 1
  /\ pc' = "idle"
  /\ UNCHANGED << config, keys, messages, agent, client, agentLlm,
                  selected_model, modelsCache, available_models, sessions,
                  event, rerun, cycles, errorShown, initCalls, clearCalls,
                  closeCalls, cleanupRuns, pending, prevMsgs, lastTurn,
                  lastInit, okTurns, badTurns, submitted, startAbsent,
                  calledInit, resetFrom, sessionsAtExit, everRaised >>

\* interpreter shutdown: atexit runs every registered function
Exit ==
  /\ pc = "idle"
  /\ cycles > 0
  /\ pc' = "exiting"
  /\ pending' = registered
  /\ sessionsAtExit' = ("client" \in keys /\ client # None /\ sessions)
  /\ UNCHANGED << config, keys, messages, agent, client, agentLlm,
                  selected_model, modelsCache, available_models, sessions,
                  registered, event, rerun, cycles, errorShown, initCalls,
                  clearCalls, closeCalls, cleanupRuns, prevMsgs, lastTurn,
                  lastInit, okTurns, badTurns, submitted, startAbsent,
                  calledInit, resetFrom, everRaised >>

\* one run of a registered cleanup.  close_all_sessions is a call into the
\* transport library; whether it leaves client.sessions empty is not decided
\* by this program, so both results are allowed.
cleanup ==
  /\ pc = "exiting"
  /\ pending > 0
  /\ pending' = pending - 1
  /\ cleanupRuns' = cleanupRuns + 1
  /\ IF "client" \in keys /\ client # None /\ sessions
       THEN /\ closeCalls' = closeCalls + 1
            /\ \E emptied \in BOOLEAN : sessions' = (sessions /\ ~emptied)
       ELSE UNCHANGED << closeCalls, sessions >>
  /\ UNCHANGED << config, keys, messages, agent, client, agentLlm,
                  selected_model, modelsCache, available_models, registered,
                  pc, event, rerun, cycles, errorShown, initCalls,
                  clearCalls, prevMsgs, lastTurn, lastInit, okTurns,
                  badTurns, submitted, startAbsent, calledInit, resetFrom,
                  sessionsAtExit, everRaised >>

ExitDone ==
  /\ pc = "exiting"
  /\ pending = 0
  /\ pc' = "exited"
  /\ UNCHANGED << config, keys, messages, agent, client, agentLlm,
                  selected_model, modelsCache, available_models, sessions,
                  registered, event, rerun, cycles, errorShown, initCalls,
                  clearCalls, closeCalls, cleanupRuns, pending, prevMsgs,
                  lastTurn, lastInit, okTurns, badTurns, submitted,
                  startAbsent, calledInit, resetFrom, sessionsAtExit,
                  everRaised >>

Next ==
  \/ StartRender
  \/ ModelSelection
  \/ NewConversation
  \/ InitBlock
  \/ ChatInput
  \/ Register
  \/ Exit
  \/ cleanup
  \/ ExitDone

Spec == Init /\ [][Next]_vars

\* ---------------------------------------------------------------- claims
Alternates(msgs) ==
  \A k \in 1..Len(msgs) :
     msgs[k].role = IF k % 2 = 1 THEN "user" ELSE "assistant"

IsUser(e) == e.role = "user"

RECURSIVE Contents(_)
Contents(msgs) ==
  IF msgs = <<>> THEN <<>> ELSE <<Head(msgs).content>> \o Contents(Tail(msgs))

UserContents(msgs) == Contents(SelectSeq(msgs, IsUser))

HandlesPresent == client # None /\ agent # None

AfterInitBlock == cycles > 0 /\ pc \notin {"sidebar", "button", "init"}

\* C1: while every turn since the transcript was last empty (session start or
\* New Conversation) has succeeded, after N such turns the transcript has
\* exactly 2N entries alternating user/assistant, starting with user.
C1_SuccessfulTurns ==
  badTurns = 0 => /\ Len(messages) = 2 * okTurns
                  /\ Alternates(messages)

C1_Witness == badTurns = 0 /\ okTurns = 2 /\ Len(messages) = 4 /\ resetFrom = -1

\* C2 (as stated): whenever agent.run raised during the turn, the transcript
\* length right after the turn is odd, whatever transcript the turn started
\* from.
C2_Original == lastTurn = "raised" => Len(messages) % 2 = 1

\* C2 (amended): when agent.run raised, the transcript right after the turn
\* is the transcript before the turn plus the one user entry, unpaired; its
\* length is odd exactly when the turn started from an even-length transcript.
C2_FailedTurn ==
  lastTurn = "raised" =>
     /\ Len(messages) = Len(prevMsgs) + 1
     /\ SubSeq(messages, 1, Len(prevMsgs)) = prevMsgs
     /\ messages[Len(messages)].role = "user"
     /\ (Len(messages) % 2 = 1) <=> (Len(prevMsgs) % 2 = 0)

C2_Witness == lastTurn = "raised" /\ Len(prevMsgs) % 2 = 1 /\ pc = "register"

\* C3: the New Conversation handler empties the transcript, calls the agent's
\* clear_conversation_history once if an agent handle exists and not at all
\* otherwise, and leaves the handles and the selected model unchanged.
C3_NewConversation ==
  [][ (pc = "button" /\ event.kind = "button") =>
        /\ messages' = <<>>
        /\ clearCalls' = clearCalls + (IF agent # None THEN 1 ELSE 0)
        /\ UNCHANGED << client, agent, agentLlm, selected_model >> ]_vars

C3_Witness ==
  /\ pc = "init" /\ event.kind = "button"
  /\ resetFrom > 0 /\ messages = <<>>
  /\ agent # None /\ clearCalls = 1

C5_BothOrNeither == pc = "idle" => ((client = None) <=> (agent = None))

C5_Witness ==
  /\ pc = "idle" /\ cycles > 1
  /\ HandlesPresent /\ initCalls >= 2 /\ everRaised

\* C6: when a step of agent construction raises, both handles are empty
\* afterwards, an error is displayed, and the initialization step leaves the
\* transcript as it was.
C6_ConstructionFailure ==
  [][ (pc = "init" /\ lastInit' \in {"client", "llm", "agent"}) =>
        /\ client' = None
        /\ agent' = None
        /\ errorShown' = TRUE
        /\ messages' = messages ]_vars

C6_Witness ==
  /\ pc = "chat" /\ lastInit = "agent"
  /\ client = None /\ agent = None /\ errorShown
  /\ Len(messages) > 0

\* C7 (as stated): on every configuration failure (file absent, malformed
\* JSON, 'models' key missing) load_models returns the same fixed fallback
\* list.
C7_Original ==
  (modelsCache.set /\ (config.kind \in {"absent", "malformed"} \/ ~config.hasModels))
     => available_models = FallbackModels

\* C7 (amended): load_models never raises; it returns the three-element
\* fallback list when the file is absent, malformed or not a JSON object, the
\* one-element list <<"qwen-qwq-32b">> when the object has no 'models' key,
\* and the key's value when the key is present.
C7_LoadModels ==
  /\ load_models(config).raised = FALSE
  /\ modelsCache.set =>
       available_models =
         IF config.kind \in {"absent", "malformed", "nonobject"}
           THEN <<"qwen-qwq-32b", "llama3-8b-8192", "llama3-70b-8192">>
         ELSE IF config.hasModels THEN config.models
         ELSE <<"qwen-qwq-32b">>

C7_Witness ==
  /\ modelsCache.set
  /\ config.kind = "object" /\ ~config.hasModels
  /\ Len(available_models) = 1

\* C8: apart from New Conversation every step leaves the previous transcript
\* as a prefix of the new one, user entries appear in submission order, and a
\* turn whose agent.run raises adds exactly the one user entry.
C8_AppendOnly ==
  /\ [](UserContents(messages) = submitted)
  /\ [][ /\ (~(pc = "button" /\ event.kind = "button"))
              => IsPrefix(messages, messages')
         /\ (pc = "chat" /\ lastTurn' = "raised")
              => messages' = Append(messages, Entry("user", event.arg)) ]_vars

C8_Witness ==
  /\ lastTurn = "raised" /\ Len(prevMsgs) = 2 /\ Len(messages) = 3
  /\ submitted = <<"hi", "go">>

C10_HandlesStable ==
  [][ HandlesPresent =>
        /\ client' = client
        /\ agent' = agent
        /\ agentLlm' = agentLlm ]_vars

C10_Witness ==
  /\ HandlesPresent /\ pc = "idle"
  /\ agentLlm # LlmFor(selected_model)
  /\ everRaised /\ clearCalls > 0

====
